---- MODULE Spec2Model ----
(***************************************************************************)
(* The GELF/UDP client of pskzcompany/graylog: class Graylog.              *)
(*                                                                         *)
(* The model follows the latest revision of the class (the one with the    *)
(* byte counts, kept in src/src/index.spec.ts lines 488-885); the earlier  *)
(* revision in src/src/index.ts has the same transport, chunking and       *)
(* close/destroy code.                                                     *)
(*                                                                         *)
(* Node runs the class on one thread: every action below is one            *)
(* synchronous run of code between two suspension points (an await, a      *)
(* socket callback, a process.nextTick callback).                          *)
(***************************************************************************)
EXTENDS Integers, Sequences, FiniteSets, TLC

\* ---------------------------------------------------------------- bounds

\* Number of send() calls made on the client during one behaviour.
NumSends == 2
\* Number of close() calls made on the client during one behaviour.
NumCloses == 2

\* ------------------------------------------------------ program constants

\* "const dataSize = bufferSize - 12": the size of the GELF chunk header.
HeaderSize == 12
\* "if (chunkCount > 128)": the protocol's ceiling on chunks per message.
MaxChunks == 128
\* "this._generateRandomId(8)": the length of a message id.
IdLength == 8
\* "chunk[0] = 30; chunk[1] = 15": the magic bytes 0x1E 0x0F.
Magic0 == 30
Magic1 == 15

\* ------------------------------------------------------------- the inputs

\* config.bufferSize: below the header size, equal to it, and above it.
BufferSizes == {5, 12, 26}
DeflateModes == {"optimal", "always", "never"}
\* config.servers (deep-copied by the constructor).
Servers == << [host |-> "10.0.0.1", port |-> 12201],
              [host |-> "10.0.0.2", port |-> 12201] >>

\* "private _bufferSize = 1400": the datagram size when the config gives
\* none.
DefaultBufferSize == 1400

\* A field or a config key that is undefined.
Undefined == "undefined"

\* The configs given to the constructor: deflate absent, empty, a mode, or
\* another string; bufferSize absent, zero, negative or positive.
ConfigDeflates == DeflateModes \cup {"", "not an option"}
ConfigBufferSizes == {0 - 26, 0, 26}
Configs ==
  { [given |-> g,
     deflate |-> IF "deflate" \in g THEN d ELSE Undefined,
     bufferSize |-> IF "bufferSize" \in g THEN b ELSE 0] :
      g \in SUBSET {"deflate", "bufferSize"},
      d \in ConfigDeflates, b \in ConfigBufferSizes }

SendIds == 1 .. NumSends
CloseIds == 1 .. NumCloses
NoSocket == 0      \* this.client === undefined
NoClose == 0       \* this._destroyIfNeeded === undefined

VARIABLES
  config,            \* the argument of "new Graylog(config)"
  construction,      \* how far "new Graylog(config)" is: the fields are
                     \* initialized ("fields"), the constructor returned
                     \* ("returned") or threw ("thrown", with the message)
  _bufferSize,       \* this._bufferSize
  deflate,           \* this.deflate
  client,            \* this.client: NoSocket, or the number of the socket held
  socketCount,       \* how many sockets dgram.createSocket has made so far
  _unsentMessages,   \* this._unsentMessages
  _unsentChunks,     \* this._unsentChunks
  _callCount,        \* this._callCount
  _destroyIfNeeded,  \* this._destroyIfNeeded: NoClose, or the close() call
                     \* whose closure is installed
  sends,             \* the send() calls: position and locals of each, the
                     \* datagrams it gave to socket.send (sent) and the
                     \* drain state at the call (phase)
  closes,            \* the close() calls: position of each, and the drain
                     \* state at the call (phase)
  closePromise,      \* the promise each close() call returned
  listeners          \* the listeners of the 'err' event, in the order they
                     \* were added

vars == << config, construction, _bufferSize, deflate, client, socketCount, _unsentMessages,
           _unsentChunks, _callCount, _destroyIfNeeded, sends, closes,
           closePromise, listeners >>

\* ------------------------------------------------------------ byte buffers

\* Buffer.from(JSON.stringify(payload)): the serialized record of n bytes.
Serialize(n) == [i \in 1 .. n |-> i % 256]

\* A result of zlib.deflate of n bytes (its bytes differ from a record's).
Deflated(n) == [i \in 1 .. n |-> (255 - i) % 256]

\* crypto.randomBytes(8): one of two message ids.
RandomIds == { [i \in 1 .. IdLength |-> b] : b \in {17, 34} }

\* The lengths tried, for records and for deflate results: exactly one
\* datagram, one byte more than one datagram, and a long one: one byte more
\* than 128 chunks can carry when a chunk has room for data, else more than
\* twice the datagram size.
InputLengths ==
  {_bufferSize, _bufferSize + 1,
   IF _bufferSize > HeaderSize
   THEN MaxChunks * (_bufferSize - HeaderSize) + 1
   ELSE 2 * _bufferSize + 2}

\* buf[index] = value on a Buffer: index is 0-based, a write outside the
\* buffer is ignored, the value is stored as an unsigned byte.
WriteByte(buf, index, value) ==
  IF index >= 0 /\ index < Len(buf)
  THEN [buf EXCEPT ![index + 1] = value % 256]
  ELSE buf

\* Buffer.alloc(size): size zero bytes.
Alloc(size) == [i \in 1 .. size |-> 0]

\* source.copy(target, targetStart, sourceStart, sourceEnd): copies as many
\* bytes as fit into target.
Copy(source, target, targetStart, sourceStart, sourceEnd) ==
  LET n == IF sourceEnd - sourceStart < Len(target) - targetStart
           THEN sourceEnd - sourceStart
           ELSE Len(target) - targetStart
  IN [i \in 1 .. Len(target) |->
        IF i > targetStart /\ i <= targetStart + n
        THEN source[sourceStart + (i - targetStart)]
        ELSE target[i]]

\* buf.slice(0, end).
Slice(buf, end) ==
  SubSeq(buf, 1, IF end < Len(buf) THEN end ELSE Len(buf))

Min(a, b) == IF a < b THEN a ELSE b

\* ------------------------------------------------------- the log methods

\* The methods bound to a severity, and the level each passes to _log
\* (GraylogLevelEnum).
NamedMethods ==
  {"emergency", "alert", "critical", "error", "warning", "warn", "notice",
   "info", "log", "debug"}

MethodLevel(method) ==
  CASE method = "emergency" -> 0
    [] method = "alert" -> 1
    [] method = "critical" -> 2
    [] method = "error" -> 3
    [] method \in {"warning", "warn"} -> 4
    [] method = "notice" -> 5
    [] method \in {"info", "log"} -> 6
    [] method = "debug" -> 7

\* GraylogLevelEnum.INFO, the level _log falls back to.
INFO == 6

\* A level that is undefined: the argument omitted, the meta key absent.
NoLevel == 0 - 1

\* The keys of meta that _log takes out of the additional fields (level is
\* kept apart, as a number), and the keys tried: those, and three keys that
\* are additional fields.
ReservedKeys == {"facility", "full_message", "hostname", "timestamp"}
MetaKeys == ReservedKeys \cup {"id", "_id", "user"}

\* The values tried for a key of meta are a string that is empty, the
\* string "v", and for timestamp this Date.
DateValue == "Date(5000)"

\* The keys of meta other than level: Undefined for a key that is absent.
NoFields == [k \in MetaKeys |-> Undefined]

\* The meta argument: omitted, or an object that may give a level.
NoMeta == [given |-> FALSE, level |-> NoLevel, fields |-> NoFields]
Metas ==
  {NoMeta} \cup { [given |-> TRUE, level |-> l, fields |-> NoFields] :
                    l \in {NoLevel, 0, 3} }

\* The meta objects tried for their keys: the four reserved keys absent,
\* all empty strings or all given (timestamp as a Date), with id absent,
\* empty or given, and _id and user absent or given.
FieldMetas ==
  { [given |-> TRUE, level |-> NoLevel,
     fields |-> [k \in MetaKeys |->
                   CASE k = "id" -> id
                     [] k = "_id" -> uid
                     [] k = "user" -> user
                     [] k = "timestamp" -> IF r = "v" THEN DateValue ELSE r
                     [] OTHER -> r]] :
      r \in {Undefined, "", "v"}, id \in {Undefined, "", "v"},
      uid \in {Undefined, "v"}, user \in {Undefined, "v"} }

\* this.hostname and this.facility of the instance, and the time of the
\* call.
Hostname == "os.hostname()"
Facility == "Node.js"
Now == "Date.now() / 1000"

\* The keys a payload can have, besides level.
PayloadKeys ==
  {"version", "timestamp", "host", "facility", "full_message", "hostname"}
    \cup MetaKeys \cup {"_" \o k : k \in MetaKeys}

\* The level argument of a direct _log call: omitted, EMERG, DEBUG.
LevelArgs == {NoLevel, 0, 7}

\* The disablePromiseRejection argument of a direct _log call.
RejectionArgs == {"omitted", "false", "true"}

\* The payload of a direct send(): its fields are the caller's.
NoPayload == [level |-> NoLevel, fields |-> [k \in PayloadKeys |-> Undefined]]

\* The callbacks a program passes to onError(), and the one it passes as
\* config.onError.
Observers == {"cb"}
ConfigOnError == "config.onError"

\* ------------------------------------------------------------ constructor

NewSend ==
  [pc |-> "idle", data |-> << >>, compressed |-> FALSE, buffer |-> << >>,
   chunked |-> FALSE,
   chunkCount |-> 0, seq |-> 0, id |-> << >>, server |-> Servers[1],
   chunk |-> << >>, sent |-> << >>, err |-> "none", phase |-> "open",
   method |-> "none", disablePromiseRejection |-> "omitted", meta |-> NoMeta,
   level |-> NoLevel,
   payload |-> NoPayload, sendedBytes |-> 0, reported |-> << >>,
   result |-> "none", reason |-> "none", notified |-> << >>]

NewClose == [pc |-> "idle", phase |-> "open"]

\* The field initializers of the class: the state in which the constructor
\* body starts.
Fields ==
  /\ _bufferSize = DefaultBufferSize
  /\ deflate = Undefined
  /\ client = NoSocket
  /\ socketCount = 0
  /\ _unsentMessages = 0
  /\ _unsentChunks = 0
  /\ _callCount = 0
  /\ _destroyIfNeeded = NoClose
  /\ sends = [t \in SendIds |-> NewSend]
  /\ closes = [c \in CloseIds |-> NewClose]
  /\ closePromise = [c \in CloseIds |-> "none"]
  /\ listeners = << >>

\* "config.deflate || 'optimal'": undefined and the empty string count as
\* false.
DeflateOrDefault(c) ==
  IF "deflate" \in c.given /\ c.deflate # ""
  THEN c.deflate
  ELSE "optimal"

\* "config?.bufferSize && config.bufferSize > 0".
BufferSizeGiven(c) ==
  "bufferSize" \in c.given /\ c.bufferSize # 0 /\ c.bufferSize > 0

\* The message of the error the constructor throws.
DeflateError(mode) ==
  "deflate must be one of \"optimal\", \"always\", or \"never\". was \""
    \o mode \o "\""

\* Constructor that takes whatever bufferSize the config gives.
Constructor_AnyBufferSize ==
  /\ construction.pc = "fields"
  /\ deflate' = DeflateOrDefault(config)
  /\ IF deflate' \notin DeflateModes
     THEN /\ construction' = [pc |-> "thrown", message |-> DeflateError(deflate')]
          /\ UNCHANGED _bufferSize
     ELSE /\ construction' = [pc |-> "returned", message |-> ""]
          /\ _bufferSize' = IF "bufferSize" \in config.given
                            THEN config.bufferSize
                            ELSE _bufferSize
  /\ UNCHANGED << config, client, socketCount, _unsentMessages, _unsentChunks,
                  _callCount, _destroyIfNeeded, sends, closes, closePromise,
                  listeners >>

\* The body of the constructor.
Constructor ==
  /\ construction.pc = "fields"
  /\ deflate' = DeflateOrDefault(config)
  /\ IF deflate' \notin DeflateModes
     THEN /\ construction' = [pc |-> "thrown", message |-> DeflateError(deflate')]
          /\ UNCHANGED _bufferSize
     ELSE /\ construction' = [pc |-> "returned", message |-> ""]
          /\ _bufferSize' = IF BufferSizeGiven(config)
                            THEN config.bufferSize
                            ELSE _bufferSize
  /\ UNCHANGED << config, client, socketCount, _unsentMessages, _unsentChunks,
                  _callCount, _destroyIfNeeded, sends, closes, closePromise,
                  listeners >>

\* The state after "new Graylog(config)" with a bufferSize of BufferSizes and
\* a mode of DeflateModes in the config.
Init ==
  /\ _bufferSize \in BufferSizes
  /\ deflate \in DeflateModes
  /\ config = [given |-> {"deflate", "bufferSize"}, deflate |-> deflate,
               bufferSize |-> _bufferSize]
  /\ construction = [pc |-> "returned", message |-> ""]
  /\ client = NoSocket
  /\ socketCount = 0
  /\ _unsentMessages = 0
  /\ _unsentChunks = 0
  /\ _callCount = 0
  /\ _destroyIfNeeded = NoClose
  /\ sends = [t \in SendIds |-> NewSend]
  /\ closes = [c \in CloseIds |-> NewClose]
  /\ closePromise = [c \in CloseIds |-> "none"]
  /\ listeners = << >>

\* ------------------------------------------------------ server and socket

\* getServer(): the server for the current value of _callCount (the caller
\* increments _callCount).
GetServer == Servers[(_callCount % Len(Servers)) + 1]

\* GetClient that creates a socket at every call.
GetClient_AlwaysNew == socketCount + 1

\* getClient(): the socket held, or a new one (the caller stores it).
GetClient == IF client = NoSocket THEN socketCount + 1 ELSE client

\* The drain state of section 4.4, as the class's fields show it.
DrainState ==
  IF \E c \in CloseIds : closePromise[c] = "resolved" THEN "closed"
  ELSE IF _destroyIfNeeded # NoClose THEN "draining"
  ELSE "open"

\* --------------------------------------------------------- close / destroy

\* Destroy that forgets the closure and keeps the socket.
Destroy_KeepsSocket ==
  IF client # NoSocket
  THEN /\ client' = client
       /\ _destroyIfNeeded' = NoClose
  ELSE UNCHANGED << client, _destroyIfNeeded >>

\* destroy().
Destroy ==
  IF client # NoSocket
  THEN /\ client' = NoSocket
       /\ _destroyIfNeeded' = NoClose
  ELSE UNCHANGED << client, _destroyIfNeeded >>

\* DestroyIfNeeded with the message counter left out of the test.
DestroyIfNeeded_ChunksOnly(unsentChunks, unsentMessages) ==
  IF unsentChunks = 0
  THEN /\ Destroy
       /\ closePromise' =
            [closePromise EXCEPT ![_destroyIfNeeded] =
               IF @ = "pending" THEN "resolved" ELSE @]
  ELSE UNCHANGED << client, _destroyIfNeeded, closePromise >>

\* The closure close() installs in _destroyIfNeeded, called with the
\* counters as they are at the call. Its resolve() settles the promise of
\* the close() call that installed it; resolving a settled promise does
\* nothing.
DestroyIfNeeded(unsentChunks, unsentMessages) ==
  IF unsentChunks = 0 /\ unsentMessages = 0
  THEN /\ Destroy
       /\ closePromise' =
            [closePromise EXCEPT ![_destroyIfNeeded] =
               IF @ = "pending" THEN "resolved" ELSE @]
  ELSE UNCHANGED << client, _destroyIfNeeded, closePromise >>

\* "if (this._destroyIfNeeded) this._destroyIfNeeded()".
RunDestroyIfNeeded(unsentChunks, unsentMessages) ==
  IF _destroyIfNeeded # NoClose
  THEN DestroyIfNeeded(unsentChunks, unsentMessages)
  ELSE UNCHANGED << client, _destroyIfNeeded, closePromise >>

\* Close that installs its closure over the one already installed.
Close_Reinstalls(c) ==
  /\ closes[c].pc = "idle"
  /\ \A d \in CloseIds : d < c => closes[d].pc # "idle"
  /\ closes' = [closes EXCEPT ![c] =
                  [pc |-> IF _destroyIfNeeded # NoClose
                          THEN "tickReject" ELSE "tickCheck",
                   phase |-> DrainState]]
  /\ _destroyIfNeeded' = c
  /\ closePromise' = [closePromise EXCEPT ![c] = "pending"]
  /\ UNCHANGED << config, construction >>
  /\ UNCHANGED << _bufferSize, deflate, client, socketCount, _unsentMessages,
                  _unsentChunks, _callCount, sends, listeners >>

\* close(), the promise executor: a second call while a closure is installed
\* schedules its own rejection, otherwise the closure is installed and a
\* first check is scheduled.
Close(c) ==
  /\ closes[c].pc = "idle"
  /\ \A d \in CloseIds : d < c => closes[d].pc # "idle"
  /\ IF _destroyIfNeeded # NoClose
     THEN /\ closes' = [closes EXCEPT ![c] =
                          [pc |-> "tickReject", phase |-> DrainState]]
          /\ UNCHANGED _destroyIfNeeded
     ELSE /\ closes' = [closes EXCEPT ![c] =
                          [pc |-> "tickCheck", phase |-> DrainState]]
          /\ _destroyIfNeeded' = c
  /\ closePromise' = [closePromise EXCEPT ![c] = "pending"]
  /\ UNCHANGED << config, construction >>
  /\ UNCHANGED << _bufferSize, deflate, client, socketCount, _unsentMessages,
                  _unsentChunks, _callCount, sends, listeners >>

\* The process.nextTick callback of a rejected close().
CloseRejectTick(c) ==
  /\ closes[c].pc = "tickReject"
  /\ closes' = [closes EXCEPT ![c].pc = "returned"]
  /\ closePromise' = [closePromise EXCEPT ![c] = "rejected"]
  /\ UNCHANGED << config, construction >>
  /\ UNCHANGED << _bufferSize, deflate, client, socketCount, _unsentMessages,
                  _unsentChunks, _callCount, _destroyIfNeeded, sends,
                  listeners >>

\* CloseCheckTick without the check: close() leaves the closure to the
\* sends.
CloseCheckTick_NoCheck(c) ==
  /\ closes[c].pc = "tickCheck"
  /\ closes' = [closes EXCEPT ![c].pc = "returned"]
  /\ UNCHANGED << config, construction >>
  /\ UNCHANGED << _bufferSize, deflate, client, socketCount, _unsentMessages,
                  _unsentChunks, _callCount, _destroyIfNeeded, sends,
                  closePromise, listeners >>

\* The process.nextTick callback of an accepted close(): the first check.
CloseCheckTick(c) ==
  /\ closes[c].pc = "tickCheck"
  /\ closes' = [closes EXCEPT ![c].pc = "returned"]
  /\ RunDestroyIfNeeded(_unsentChunks, _unsentMessages)
  /\ UNCHANGED << config, construction >>
  /\ UNCHANGED << _bufferSize, deflate, socketCount, _unsentMessages,
                  _unsentChunks, _callCount, sends, listeners >>

\* -------------------------------------------------------------- transport

\* _sendChunk(msg, server), the promise executor, for send call t whose
\* record is r. socket.send either throws at once (throws) or takes the
\* datagram and calls back later. Sets client, socketCount, _unsentChunks
\* and sends.
SendChunk(t, r, msg, throws) ==
  LET socket == GetClient
      datagram == [msg |-> msg, server |-> r.server, socket |-> socket]
  IN /\ client' = socket
     /\ socketCount' = IF client = NoSocket THEN socketCount + 1 ELSE socketCount
     /\ IF socket = NoSocket
        THEN /\ sends' = [sends EXCEPT ![t] =
                            [r EXCEPT !.pc = "settled", !.err = "destroyed"]]
             /\ UNCHANGED _unsentChunks
        ELSE /\ _unsentChunks' = _unsentChunks + 1
             /\ sends' = [sends EXCEPT ![t] =
                            [r EXCEPT !.sent = Append(@, datagram),
                                      !.pc = IF throws THEN "settled" ELSE "inflight",
                                      !.err = IF throws THEN "transport" ELSE @]]

\* The length of the datagram send call t has with the socket.
Outgoing(t) == Len(sends[t].sent[Len(sends[t].sent)].msg)

\* The callback socket.send calls when the datagram is out (with the number
\* of bytes it reports as sent), or has failed.
SendCallback(t, failed, bytes) ==
  /\ sends[t].pc = "inflight"
  /\ _unsentChunks' = _unsentChunks - 1
  /\ sends' = [sends EXCEPT ![t].pc = "settled",
                            ![t].err = IF failed THEN "transport" ELSE @,
                            ![t].reported = IF failed THEN @ ELSE Append(@, bytes)]
  /\ UNCHANGED << config, construction >>
  /\ UNCHANGED << _bufferSize, deflate, client, socketCount, _unsentMessages,
                  _callCount, _destroyIfNeeded, closes, closePromise,
                  listeners >>

\* ---------------------------------------------------------------- chunking

\* Math.ceil(length / dataSize) for dataSize # 0. A negative dataSize gives a
\* quotient that is negative or zero, rounded towards zero.
ChunkCount(length, dataSize) ==
  IF dataSize > 0
  THEN (length + dataSize - 1) \div dataSize
  ELSE 0 - (length \div (0 - dataSize))

\* "chunkCount > 128"; a dataSize of 0 makes chunkCount Infinity.
TooManyChunks(length, dataSize) ==
  IF dataSize = 0 THEN TRUE ELSE ChunkCount(length, dataSize) > MaxChunks

\* The chunk buffer after "Prepare GELF header".
ChunkHeader(bufferSize, chunkCount, id) ==
  Copy(id,
       WriteByte(WriteByte(WriteByte(Alloc(bufferSize), 0, Magic0), 1, Magic1),
                 11, chunkCount),
       2, 0, IdLength)

\* One pass of the loop body up to the send: the chunk buffer with sequence
\* number and data written, and the length of the slice that is sent.
ChunkStart(seq, dataSize) == seq * dataSize
ChunkStop(seq, dataSize, length) == Min((seq + 1) * dataSize, length)

\* FillChunk that leaves the sequence number byte as it is.
FillChunk_NoSequence(chunk, buffer, seq, dataSize) ==
  Copy(buffer, chunk, HeaderSize,
       ChunkStart(seq, dataSize), ChunkStop(seq, dataSize, Len(buffer)))

FillChunk(chunk, buffer, seq, dataSize) ==
  Copy(buffer, WriteByte(chunk, 10, seq), HeaderSize,
       ChunkStart(seq, dataSize), ChunkStop(seq, dataSize, Len(buffer)))

\* ChunkLength that leaves the header out of the slice.
ChunkLength_NoHeader(buffer, seq, dataSize) ==
  ChunkStop(seq, dataSize, Len(buffer)) - ChunkStart(seq, dataSize)

ChunkLength(buffer, seq, dataSize) ==
  ChunkStop(seq, dataSize, Len(buffer)) - ChunkStart(seq, dataSize) + HeaderSize

\* ChunkLoop with the server looked up for every chunk instead of once
\* before the loop.
ChunkLoop_ServerPerChunk(t, r, seq, throws) ==
  LET dataSize == _bufferSize - HeaderSize
  IN IF seq < r.chunkCount
     THEN LET chunk == FillChunk(r.chunk, r.buffer, seq, dataSize)
          IN SendChunk(t, [r EXCEPT !.chunk = chunk, !.seq = seq,
                                    !.server = GetServer],
                       Slice(chunk, ChunkLength(r.buffer, seq, dataSize)), throws)
     ELSE /\ sends' = [sends EXCEPT ![t] = [r EXCEPT !.pc = "settled"]]
          /\ UNCHANGED << client, socketCount, _unsentChunks >>

\* The loop of _sendChunkedStream at sequence number seq, for send call t
\* with record r: sends the next chunk, or leaves the loop and returns.
\* Sets client, socketCount, _unsentChunks and sends.
ChunkLoop(t, r, seq, throws) ==
  LET dataSize == _bufferSize - HeaderSize
  IN IF seq < r.chunkCount
     THEN LET chunk == FillChunk(r.chunk, r.buffer, seq, dataSize)
          IN SendChunk(t, [r EXCEPT !.chunk = chunk, !.seq = seq],
                       Slice(chunk, ChunkLength(r.buffer, seq, dataSize)), throws)
     ELSE /\ sends' = [sends EXCEPT ![t] = [r EXCEPT !.pc = "settled"]]
          /\ UNCHANGED << client, socketCount, _unsentChunks >>

\* _sendChunkedStream(buffer) up to its first await: the size check.
\* Sets sends.
SendChunkedStream(t, r) ==
  LET dataSize == _bufferSize - HeaderSize
  IN IF TooManyChunks(Len(r.buffer), dataSize)
     THEN sends' = [sends EXCEPT ![t] =
                      [r EXCEPT !.pc = "settled", !.err = "size"]]
     ELSE sends' = [sends EXCEPT ![t] =
                      [r EXCEPT !.pc = "generateId",
                                !.chunkCount = ChunkCount(Len(r.buffer), dataSize)]]

\* _sendChunkedStream after "await this._generateRandomId(8)": the server is
\* taken, the header prepared and the loop entered.
GenerateRandomIdDone(t, id, throws) ==
  /\ sends[t].pc = "generateId"
  /\ _callCount' = _callCount + 1
  /\ ChunkLoop(t, [sends[t] EXCEPT
                     !.id = id, !.server = GetServer,
                     !.chunk = ChunkHeader(_bufferSize, sends[t].chunkCount, id)],
               0, throws)
  /\ UNCHANGED << config, construction >>
  /\ UNCHANGED << _bufferSize, deflate, _unsentMessages, _destroyIfNeeded,
                  closes, closePromise, listeners >>

\* ---------------------------------------------------------------- _sendData

\* SendData with getServer() called before the length is looked at.
SendData_ServerFirst(t, r, buffer, throws) ==
  /\ _unsentMessages' = _unsentMessages + 1
  /\ _callCount' = _callCount + 1
  /\ IF Len(buffer) <= _bufferSize
     THEN SendChunk(t, [r EXCEPT !.buffer = buffer, !.server = GetServer],
                    buffer, throws)
     ELSE /\ SendChunkedStream(t, [r EXCEPT !.buffer = buffer, !.chunked = TRUE])
          /\ UNCHANGED << client, socketCount, _unsentChunks >>

\* _sendData(buffer) up to its first await, for send call t with record r.
\* Sets _unsentMessages, _callCount, client, socketCount, _unsentChunks, sends.
SendData(t, r, buffer, throws) ==
  /\ _unsentMessages' = _unsentMessages + 1
  /\ IF Len(buffer) <= _bufferSize
     THEN /\ _callCount' = _callCount + 1
          /\ SendChunk(t, [r EXCEPT !.buffer = buffer, !.server = GetServer],
                       buffer, throws)
     ELSE /\ SendChunkedStream(t, [r EXCEPT !.buffer = buffer, !.chunked = TRUE])
          /\ UNCHANGED << _callCount, client, socketCount, _unsentChunks >>

\* this.emit('err', e): every listener is called with e, in the order the
\* listeners were added.
Emit(e) == [i \in 1 .. Len(listeners) |-> [cb |-> listeners[i], e |-> e]]

\* LogReturn with the error handler of _log returning false without
\* emitting the event.
LogReturn_NoEmit(r) ==
  IF r.err = "none"
  THEN [r EXCEPT !.result = "resolved"]
  ELSE IF r.disablePromiseRejection = "true"
       THEN [r EXCEPT !.result = "false"]
       ELSE [r EXCEPT !.result = "rejected", !.reason = r.err]

\* LogReturn with the error handler attached whatever the value of
\* disablePromiseRejection.
LogReturn_AlwaysSafe(r) ==
  IF r.err = "none"
  THEN [r EXCEPT !.result = "resolved"]
  ELSE IF r.method # "send"
       THEN [r EXCEPT !.result = "false", !.notified = Emit(r.err)]
       ELSE [r EXCEPT !.result = "rejected", !.reason = r.err]

\* What the caller's promise settles to once _sendData has returned
\* sendedBytes or thrown: send() and _log without disablePromiseRejection
\* pass the outcome on, _log with it turns an error into the event 'err'
\* and the value false.
LogReturn(r) ==
  IF r.err = "none"
  THEN [r EXCEPT !.result = "resolved"]
  ELSE IF r.disablePromiseRejection = "true"
       THEN [r EXCEPT !.result = "false", !.notified = Emit(r.err)]
       ELSE [r EXCEPT !.result = "rejected", !.reason = r.err]

\* SendDataFinally with the decrement after the try block instead of in a
\* finally block: an error skips it.
SendDataFinally_NoFinally(t, r) ==
  IF r.err = "none"
  THEN /\ _unsentMessages' = _unsentMessages - 1
       /\ RunDestroyIfNeeded(_unsentChunks, _unsentMessages - 1)
       /\ sends' = [sends EXCEPT ![t] = LogReturn([r EXCEPT !.pc = "done"])]
  ELSE /\ sends' = [sends EXCEPT ![t] = LogReturn([r EXCEPT !.pc = "failed"])]
       /\ UNCHANGED << _unsentMessages, client, _destroyIfNeeded, closePromise >>

\* The rest of _sendData once its await has settled: the finally block, and
\* after a success the check of _destroyIfNeeded; the caller's promise
\* settles with the outcome.
\* Sets _unsentMessages, client, _destroyIfNeeded, closePromise, sends.
SendDataFinally(t, r) ==
  /\ _unsentMessages' = _unsentMessages - 1
  /\ IF r.err = "none"
     THEN /\ RunDestroyIfNeeded(_unsentChunks, _unsentMessages - 1)
          /\ sends' = [sends EXCEPT ![t] = LogReturn([r EXCEPT !.pc = "done"])]
     ELSE /\ sends' = [sends EXCEPT ![t] = LogReturn([r EXCEPT !.pc = "failed"])]
          /\ UNCHANGED << client, _destroyIfNeeded, closePromise >>

\* ------------------------------------------------------------------- send

\* SendsPlain with 'optimal' compressing whatever the length.
SendsPlain_NeverOnly(data) == deflate = "never"

\* "deflate === 'never' || (deflate === 'optimal' && data.length <= _bufferSize)".
SendsPlain(data) ==
  deflate = "never" \/ (deflate = "optimal" /\ Len(data) <= _bufferSize)

\* The body of send(payload) up to its first suspension, for call t with
\* record r and a payload that serializes to data.
\* Sets _unsentMessages, _callCount, client, socketCount, _unsentChunks, sends.
SendBody(t, r, data, throws) ==
  IF SendsPlain(data)
  THEN SendData(t, r, data, throws)
  ELSE /\ sends' = [sends EXCEPT ![t] =
                      [r EXCEPT !.pc = "deflate", !.data = data]]
       /\ UNCHANGED << _unsentMessages, _callCount, client, socketCount,
                       _unsentChunks >>

\* send(payload) called by the program, for a payload that serializes to
\* data, up to its first suspension.
Send(t, data, throws) ==
  /\ sends[t].pc = "idle"
  /\ \A u \in SendIds : u < t => sends[u].pc # "idle"
  /\ SendBody(t, [sends[t] EXCEPT !.phase = DrainState, !.method = "send",
                                  !.result = "pending"],
              data, throws)
  /\ UNCHANGED << config, construction >>
  /\ UNCHANGED << _bufferSize, deflate, _destroyIfNeeded, closes, closePromise,
                  listeners >>

\* A value in a condition: undefined and 0 count as false.
Truthy(level) == level # NoLevel /\ level # 0

\* A value of a key of meta in a condition: undefined and the empty string
\* count as false.
TruthyValue(v) == v # Undefined /\ v # ""

\* "timestamp instanceof Date ? timestamp.getTime() / 1000 : timestamp".
Seconds(timestamp) == IF timestamp = DateValue THEN "5" ELSE timestamp

\* The object literal _log starts from (level apart): timestamp is
\* "meta?.timestamp || Date.now() / 1000".
InitialFields(meta) ==
  [k \in PayloadKeys |->
     CASE k = "version" -> "1.1"
       [] k = "timestamp" -> IF meta.given /\ TruthyValue(meta.fields[k])
                             THEN meta.fields[k]
                             ELSE Now
       [] k = "host" -> Hostname
       [] k = "facility" -> Facility
       [] OTHER -> Undefined]

\* "if (facility) payload.facility = facility" and the like for
\* full_message, hostname and timestamp.
WithReserved(fields, meta) ==
  [k \in PayloadKeys |->
     IF k \in ReservedKeys /\ TruthyValue(meta.fields[k])
     THEN IF k = "timestamp" THEN Seconds(meta.fields[k]) ELSE meta.fields[k]
     ELSE fields[k]]

\* "...additionalParams": the keys of meta left after the destructuring.
AdditionalParams(meta) ==
  {k \in MetaKeys \ ReservedKeys : meta.fields[k] # Undefined}

\* WithAdditional that copies the additional fields under their own names.
WithAdditional_NoPrefix(fields, meta) ==
  [k \in PayloadKeys |->
     IF k \in AdditionalParams(meta) THEN meta.fields[k] ELSE fields[k]]

\* "for (const field in additionalParams) payload['_' + field] = ...".
WithAdditional(fields, meta) ==
  [k \in PayloadKeys |->
     IF \E field \in AdditionalParams(meta) : k = "_" \o field
     THEN meta.fields[CHOOSE field \in AdditionalParams(meta) : k = "_" \o field]
     ELSE fields[k]]

\* "if (payload._id) { payload.__id = payload._id; delete payload._id; }".
RenameId(fields) ==
  IF TruthyValue(fields["_id"])
  THEN [fields EXCEPT !["__id"] = fields["_id"], !["_id"] = Undefined]
  ELSE fields

\* The payload _log builds: "level: level || GraylogLevelEnum.INFO", then
\* "if (level) payload.level = level" for the level of meta, and the other
\* keys of meta.
Payload(meta, level) ==
  [level |-> IF meta.given /\ Truthy(meta.level) THEN meta.level
             ELSE IF Truthy(level) THEN level
             ELSE INFO,
   fields |-> IF meta.given
              THEN RenameId(WithAdditional(WithReserved(InitialFields(meta),
                                                        meta), meta))
              ELSE InitialFields(meta)]

\* _log(msg, meta, level, disablePromiseRejection), called by the program
\* or by the method named, for a msg that makes the payload serialize to
\* data: the payload is built and given to send(), up to the first
\* suspension of send().
Log(t, method, meta, level, disablePromiseRejection, data, throws) ==
  /\ sends[t].pc = "idle"
  /\ \A u \in SendIds : u < t => sends[u].pc # "idle"
  /\ SendBody(t, [sends[t] EXCEPT
                    !.phase = DrainState, !.method = method, !.meta = meta,
                    !.level = level,
                    !.disablePromiseRejection = disablePromiseRejection,
                    !.payload = Payload(meta, level), !.result = "pending"],
              data, throws)
  /\ UNCHANGED << config, construction >>
  /\ UNCHANGED << _bufferSize, deflate, _destroyIfNeeded, closes, closePromise,
                  listeners >>

\* emergency(msg, meta) ... debug(msg, meta).
Named(t, method, meta, data, throws) ==
  Log(t, method, meta, MethodLevel(method), "true", data, throws)

\* onError(cb): cb is added to the listeners of 'err'.
OnError(cb) ==
  /\ \A i \in 1 .. Len(listeners) : listeners[i] # cb
  /\ listeners' = Append(listeners, cb)
  /\ UNCHANGED << config, construction >>
  /\ UNCHANGED << _bufferSize, deflate, client, socketCount, _unsentMessages,
                  _unsentChunks, _callCount, _destroyIfNeeded, sends, closes,
                  closePromise >>

\* The function onError(cb) returned is called: cb is removed.
RemoveListener(cb) ==
  /\ \E i \in 1 .. Len(listeners) : listeners[i] = cb
  /\ listeners' = SelectSeq(listeners, LAMBDA l : l # cb)
  /\ UNCHANGED << config, construction >>
  /\ UNCHANGED << _bufferSize, deflate, client, socketCount, _unsentMessages,
                  _unsentChunks, _callCount, _destroyIfNeeded, sends, closes,
                  closePromise >>

\* send after "await deflateAsync(data)"; data is not used again.
DeflateDone(t, compressedData, throws) ==
  /\ sends[t].pc = "deflate"
  /\ SendData(t, [sends[t] EXCEPT !.data = << >>, !.compressed = TRUE],
              compressedData, throws)
  /\ UNCHANGED << config, construction >>
  /\ UNCHANGED << _bufferSize, deflate, _destroyIfNeeded, closes, closePromise,
                  listeners >>

\* The value of the _sendChunk promise a send call was awaiting: the byte
\* count the callback reported.
Awaited(r) ==
  IF r.err = "none" /\ r.reported # << >>
  THEN r.reported[Len(r.reported)]
  ELSE 0

\* "sendedBytes = await ..." and "sendedBytes += await ...".
AddBytes(r) == [r EXCEPT !.sendedBytes = @ + Awaited(r)]

\* Resume without the await on _sendChunk: the loop goes on while the
\* datagram it handed over is still with the socket.
Resume_NoAwait(t, throws) ==
  /\ sends[t].pc \in {"settled", "inflight"}
  /\ IF sends[t].err = "none" /\ sends[t].chunked
        /\ sends[t].seq + 1 < sends[t].chunkCount
     THEN /\ ChunkLoop(t, AddBytes(sends[t]), sends[t].seq + 1, throws)
          /\ UNCHANGED << _unsentMessages, _destroyIfNeeded, closePromise >>
     ELSE /\ SendDataFinally(t, AddBytes(sends[t]))
          /\ UNCHANGED << socketCount, _unsentChunks >>
  /\ UNCHANGED << config, construction >>
  /\ UNCHANGED << _bufferSize, deflate, _callCount, closes, listeners >>

\* Resume with the error of a chunk swallowed inside the loop: the loop
\* goes on with the next chunk.
Resume_IgnoresError(t, throws) ==
  /\ sends[t].pc = "settled"
  /\ IF sends[t].chunked /\ sends[t].err # "size"
        /\ sends[t].seq + 1 < sends[t].chunkCount
     THEN /\ ChunkLoop(t, AddBytes(sends[t]), sends[t].seq + 1, throws)
          /\ UNCHANGED << _unsentMessages, _destroyIfNeeded, closePromise >>
     ELSE /\ SendDataFinally(t, AddBytes(sends[t]))
          /\ UNCHANGED << socketCount, _unsentChunks >>
  /\ UNCHANGED << config, construction >>
  /\ UNCHANGED << _bufferSize, deflate, _callCount, closes, listeners >>

\* A send call resumes after the promise it awaits has settled: the loop of
\* _sendChunkedStream goes on after a chunk that went out, otherwise
\* _sendData finishes.
Resume(t, throws) ==
  /\ sends[t].pc = "settled"
  /\ IF sends[t].err = "none" /\ sends[t].chunked
        /\ sends[t].seq + 1 < sends[t].chunkCount
     THEN /\ ChunkLoop(t, AddBytes(sends[t]), sends[t].seq + 1, throws)
          /\ UNCHANGED << _unsentMessages, _destroyIfNeeded, closePromise >>
     ELSE /\ SendDataFinally(t, AddBytes(sends[t]))
          /\ UNCHANGED << socketCount, _unsentChunks >>
  /\ UNCHANGED << config, construction >>
  /\ UNCHANGED << _bufferSize, deflate, _callCount, closes, listeners >>

\* ---------------------------------------------------------- specification

Next ==
  \/ \E t \in SendIds, throws \in BOOLEAN :
       \E n \in InputLengths : Send(t, Serialize(n), throws)
  \/ \E t \in SendIds, throws \in BOOLEAN :
       \E n \in InputLengths : DeflateDone(t, Deflated(n), throws)
  \/ \E t \in SendIds, throws \in BOOLEAN :
       \E id \in RandomIds : GenerateRandomIdDone(t, id, throws)
  \/ \E t \in SendIds, failed \in BOOLEAN :
       sends[t].pc = "inflight" /\ SendCallback(t, failed, Outgoing(t))
  \/ \E t \in SendIds, throws \in BOOLEAN : Resume(t, throws)
  \/ \E c \in CloseIds : Close(c)
  \/ \E c \in CloseIds : CloseRejectTick(c)
  \/ \E c \in CloseIds : CloseCheckTick(c)

Spec == Init /\ [][Next]_vars

\* The log methods, send() and onError() against the transport, without
\* close() and without compression: every method is called the way the
\* tests call it, with {} as meta, and _log with level 3 and each value of
\* disablePromiseRejection, for records of one datagram and for long ones.
EmptyMeta == [given |-> TRUE, level |-> NoLevel, fields |-> NoFields]

LogInit == Init /\ deflate = "never"

\* The lengths tried: a record that fits one datagram, and the long one.
LogLengths == InputLengths \ {_bufferSize + 1}

LogNext ==
  \/ \E t \in SendIds, throws \in BOOLEAN, method \in NamedMethods :
       \E n \in LogLengths : Named(t, method, EmptyMeta, Serialize(n), throws)
  \/ \E t \in SendIds, throws \in BOOLEAN, d \in RejectionArgs :
       \E n \in LogLengths :
         Log(t, "_log", EmptyMeta, MethodLevel("error"), d, Serialize(n), throws)
  \/ \E t \in SendIds, throws \in BOOLEAN :
       \E n \in LogLengths : Send(t, Serialize(n), throws)
  \/ \E t \in SendIds, throws \in BOOLEAN :
       \E id \in RandomIds : GenerateRandomIdDone(t, id, throws)
  \/ \E t \in SendIds, failed \in BOOLEAN :
       sends[t].pc = "inflight" /\ SendCallback(t, failed, Outgoing(t))
  \/ \E t \in SendIds, throws \in BOOLEAN : Resume(t, throws)
  \/ \E cb \in Observers : OnError(cb)
  \/ \E cb \in Observers : RemoveListener(cb)

LogSpec == LogInit /\ [][LogNext]_vars

\* The byte counts: a named method, _log and send() against the transport,
\* with and without compression; the socket may report fewer bytes than it
\* was given.
BytesNext ==
  \/ \E t \in SendIds, throws \in BOOLEAN :
       \E n \in InputLengths : Named(t, "info", EmptyMeta, Serialize(n), throws)
  \/ \E t \in SendIds, throws \in BOOLEAN :
       \E n \in InputLengths :
         Log(t, "_log", EmptyMeta, MethodLevel("error"), "omitted",
             Serialize(n), throws)
  \/ \E t \in SendIds, throws \in BOOLEAN :
       \E n \in InputLengths : Send(t, Serialize(n), throws)
  \/ \E t \in SendIds, throws \in BOOLEAN :
       \E n \in InputLengths : DeflateDone(t, Deflated(n), throws)
  \/ \E t \in SendIds, throws \in BOOLEAN :
       \E id \in RandomIds : GenerateRandomIdDone(t, id, throws)
  \/ \E t \in SendIds, failed \in BOOLEAN :
       /\ sends[t].pc = "inflight"
       /\ \E bytes \in {Outgoing(t), Outgoing(t) - 1} : SendCallback(t, failed, bytes)
  \/ \E t \in SendIds, throws \in BOOLEAN : Resume(t, throws)

BytesSpec == Init /\ [][BytesNext]_vars

\* The payloads _log builds, for every method, meta and level, each sent as
\* one datagram that goes out.
PayloadInit == Init /\ deflate = "never" /\ _bufferSize = 26

PayloadNext ==
  \/ \E t \in SendIds, method \in NamedMethods, meta \in Metas :
       Named(t, method, meta, Serialize(_bufferSize), FALSE)
  \/ \E t \in SendIds, meta \in Metas, level \in LevelArgs :
       \E d \in RejectionArgs :
         Log(t, "_log", meta, level, d, Serialize(_bufferSize), FALSE)
  \/ \E t \in SendIds :
       sends[t].pc = "inflight" /\ SendCallback(t, FALSE, Outgoing(t))
  \/ \E t \in SendIds : Resume(t, FALSE)

PayloadSpec == PayloadInit /\ [][PayloadNext]_vars

\* ------------------------------------ the specification of the meta keys

\* info(msg, meta) and a direct _log(msg, meta, level) for every meta of
\* FieldMetas, on a client that compresses nothing, with a record of one
\* datagram that goes out.
FieldsNext ==
  \/ \E t \in SendIds, meta \in FieldMetas :
       Named(t, "info", meta, Serialize(_bufferSize), FALSE)
  \/ \E t \in SendIds, meta \in FieldMetas :
       Log(t, "_log", meta, MethodLevel("error"), "omitted",
           Serialize(_bufferSize), FALSE)
  \/ \E t \in SendIds :
       sends[t].pc = "inflight" /\ SendCallback(t, FALSE, Outgoing(t))
  \/ \E t \in SendIds : Resume(t, FALSE)

FieldsSpec == PayloadInit /\ [][FieldsNext]_vars

\* ------------------------------------------ the specification of construction

\* "new Graylog(config)" for each config of Configs, and then sends on the
\* instance: a record that fills one datagram of _bufferSize bytes and one
\* that is a byte longer.
NewGraylog ==
  /\ config \in Configs
  /\ construction = [pc |-> "fields", message |-> ""]
  /\ Fields

ConstructorNext ==
  \/ Constructor
  \/ \E t \in SendIds, n \in {_bufferSize, _bufferSize + 1} :
       construction.pc = "returned" /\ Send(t, Serialize(n), FALSE)
  \/ \E t \in SendIds, n \in {_bufferSize, _bufferSize + 1} :
       DeflateDone(t, Deflated(n), FALSE)
  \/ \E t \in SendIds : GenerateRandomIdDone(t, [i \in 1 .. IdLength |-> 17], FALSE)
  \/ \E t \in SendIds :
       sends[t].pc = "inflight" /\ SendCallback(t, FALSE, Outgoing(t))
  \/ \E t \in SendIds : Resume(t, FALSE)

ConstructorSpec == NewGraylog /\ [][ConstructorNext]_vars

\* ------------------------------------------------------------------ claims

Finished(t) == sends[t].pc \in {"done", "failed"}

\* The _sendData calls in progress: past the increment, before the finally.
InSendData == {t \in SendIds : sends[t].pc \in {"generateId", "inflight", "settled"}}

\* The datagram transmissions outstanding: socket.send took the datagram and
\* has not called back.
Outstanding == {t \in SendIds : sends[t].pc = "inflight"}

\* C1: whenever the closure installed by close() releases the socket or
\* resolves the close() promise, both counters are 0 at that moment.
C1_DestroyOnlyWhenCountersZero ==
  [][ ( \/ (client # NoSocket /\ client' = NoSocket)
        \/ \E c \in CloseIds : closePromise[c] = "pending"
                               /\ closePromise'[c] = "resolved" )
      => (_unsentMessages' = 0 /\ _unsentChunks' = 0) ]_vars

\* C1 witness: a send started while a close was pending has gone out, and
\* only then the close resolved and released the socket.
C1_Witness ==
  /\ client = NoSocket
  /\ socketCount > 0
  /\ \E c \in CloseIds : closePromise[c] = "resolved"
  /\ \E t \in SendIds : /\ sends[t].phase = "draining"
                        /\ sends[t].pc = "done"
                        /\ sends[t].sent # << >>

\* C2: once the close() that installed the closure has run its first check,
\* both counters being 0 means that close() has resolved.
C2_CountersZeroMeansClosed ==
  \A c \in CloseIds :
    (/\ _destroyIfNeeded = c
     /\ closes[c].pc = "returned"
     /\ _unsentMessages = 0
     /\ _unsentChunks = 0) => closePromise[c] = "resolved"

\* C3: when a close() promise has resolved, every send that was called while
\* the client was still open (before any close() call) has finished.
C3_ResolvedMeansEarlierSendsFinished ==
  (\E c \in CloseIds : closePromise[c] = "resolved")
    => \A t \in SendIds :
         (sends[t].pc # "idle" /\ sends[t].phase = "open") => Finished(t)

\* C4: _unsentMessages equals the number of _sendData calls in progress.
C4_MessageCounterCountsSendData ==
  _unsentMessages = Cardinality(InSendData)

\* C4 witness: one chunked send has failed in the transport, one send has
\* failed the size check, and both have released the counter.
C4_Witness ==
  /\ _unsentMessages = 0
  /\ \E t \in SendIds : /\ sends[t].pc = "failed"
                        /\ sends[t].err = "transport"
                        /\ sends[t].chunked
  /\ \E t \in SendIds : sends[t].pc = "failed" /\ sends[t].err = "size"

\* C5: _unsentChunks equals the number of datagram transmissions outstanding.
C5_ChunkCounterCountsOutstanding ==
  _unsentChunks = Cardinality(Outstanding)

\* C6: a close() called while an earlier close() is pending goes to its
\* rejection and changes neither the counters, the socket, the installed
\* closure nor any other close() promise; its rejection changes none of
\* these either.
C6_PendingCloseUntouched ==
  [][ \A c \in CloseIds :
        /\ (closes[c].pc = "idle" /\ closes'[c].pc # "idle"
            /\ DrainState = "draining")
             => /\ closes'[c].pc = "tickReject"
                /\ UNCHANGED << _unsentMessages, _unsentChunks, client,
                                _destroyIfNeeded >>
                /\ \A d \in CloseIds \ {c} : closePromise'[d] = closePromise[d]
        /\ (closes[c].pc = "tickReject" /\ closes'[c].pc # "tickReject")
             => /\ closePromise'[c] = "rejected"
                /\ UNCHANGED << _unsentMessages, _unsentChunks, client,
                                _destroyIfNeeded >>
                /\ \A d \in CloseIds \ {c} : closePromise'[d] = closePromise[d]
    ]_vars

\* C6 witness: a close() called while another was pending has been rejected,
\* and the earlier close() has resolved after a send went out.
C6_Witness ==
  \E c, d \in CloseIds :
    /\ closes[d].phase = "draining"
    /\ closePromise[d] = "rejected"
    /\ closes[c].phase = "open"
    /\ closePromise[c] = "resolved"
    /\ \E t \in SendIds : sends[t].phase = "open" /\ sends[t].pc = "done"

\* C7: a close() called after a close() has resolved is never accepted: it
\* goes to its rejection and its promise is rejected.
C7_CloseAfterClosedRejected ==
  \A c \in CloseIds :
    (closes[c].pc # "idle" /\ closes[c].phase = "closed")
      => /\ closes[c].pc # "tickCheck"
         /\ closePromise[c] # "resolved"
         /\ (closes[c].pc = "returned" => closePromise[c] = "rejected")

\* C8: a send called after a close() has resolved gives no datagram to a
\* socket and fails with the 'Socket was already destroyed' error.
C8_SendAfterClosedFails ==
  \A t \in SendIds :
    (sends[t].pc # "idle" /\ sends[t].phase = "closed")
      => /\ sends[t].sent = << >>
         /\ sends[t].pc # "done"
         /\ (sends[t].pc = "failed" => sends[t].err = "destroyed")

\* The payload slice of a chunk datagram: bytes 12 and up.
ChunkPayload(msg) == SubSeq(msg, HeaderSize + 1, Len(msg))

\* The payload slices of the first n datagrams, concatenated in the order
\* of their sequence numbers.
RECURSIVE Reassembled(_, _)
Reassembled(sent, n) ==
  IF n = 0 THEN << >>
  ELSE Reassembled(sent, n - 1) \o ChunkPayload(sent[n].msg)

\* Every datagram of a chunked message starts with the magic bytes, carries
\* the id of the first one, and the i-th one carries sequence number i - 1.
ChunkHeadersAgree(sent) ==
  \A i \in 1 .. Len(sent) :
    LET msg == sent[i].msg
    IN /\ Len(msg) >= HeaderSize
       /\ msg[1] = Magic0
       /\ msg[2] = Magic1
       /\ SubSeq(msg, 3, 2 + IdLength) = SubSeq(sent[1].msg, 3, 2 + IdLength)
       /\ msg[11] = i - 1

\* A chunked message that has gone out: the total-count byte of every
\* datagram is the number of datagrams, and the payload slices give the
\* buffer back.
ChunksComplete(r) ==
  /\ \A i \in 1 .. Len(r.sent) : r.sent[i].msg[12] = Len(r.sent)
  /\ Reassembled(r.sent, Len(r.sent)) = r.buffer

\* C9: the datagrams of every chunked message agree on magic bytes and id
\* and carry the sequence numbers 0, 1, ...; once the message has gone out
\* their total-count byte is their number and their payload slices,
\* concatenated, are the buffer that was chunked.
C9_ChunksReassemble ==
  \A t \in SendIds :
    sends[t].chunked
      => /\ ChunkHeadersAgree(sends[t].sent)
         /\ sends[t].pc = "done" => ChunksComplete(sends[t])

\* What C9 says, for the buffer sizes that leave room for data in a chunk.
ChunksReassembleWhenRoom ==
  _bufferSize > HeaderSize => C9_ChunksReassemble

\* C10: a send that has gone out gave socket.send exactly one datagram, the
\* buffer itself, when the buffer is no longer than _bufferSize, and
\* otherwise ceil(length / (_bufferSize - 12)) datagrams.
C10_DatagramCount ==
  \A t \in SendIds :
    sends[t].pc = "done"
      => IF Len(sends[t].buffer) <= _bufferSize
         THEN /\ ~sends[t].chunked
              /\ Len(sends[t].sent) = 1
              /\ sends[t].sent[1].msg = sends[t].buffer
         ELSE /\ sends[t].chunked
              /\ Len(sends[t].sent) =
                   ChunkCount(Len(sends[t].buffer), _bufferSize - HeaderSize)

\* What C10 says, for the buffer sizes that leave room for data in a chunk.
DatagramCountWhenRoom ==
  _bufferSize > HeaderSize => C10_DatagramCount

\* The send calls that have handed at least one datagram to a socket.
Transmitted == {t \in SendIds : sends[t].sent # << >>}

\* C11: a send that fails the size check fails as a pure validation
\* failure: the step that raises the error takes no id, selects no endpoint
\* (_callCount unchanged), hands no datagram to a socket and only counts the
\* message in; the step that ends the send counts it out again and changes
\* nothing else.
C11_SizeErrorHasNoEffect ==
  [][ \A t \in SendIds :
        /\ sends'[t].err = "size"
             => /\ sends'[t].sent = << >>
                /\ sends'[t].id = << >>
                /\ sends'[t].pc \in {"settled", "failed"}
        /\ (sends[t].err # "size" /\ sends'[t].err = "size")
             => /\ _unsentMessages' = _unsentMessages + 1
                /\ UNCHANGED << _callCount, _unsentChunks, client, socketCount >>
        /\ (sends[t].err = "size" /\ sends'[t] # sends[t])
             => /\ sends'[t].pc = "failed"
                /\ _unsentMessages' = _unsentMessages - 1
                /\ UNCHANGED << _callCount, _unsentChunks, client, socketCount >>
    ]_vars

\* C11 witness: one send has failed the size check and another has gone out;
\* only the one that went out has moved _callCount, and the counters are
\* back at 0.
C11_Witness ==
  /\ \E t \in SendIds : /\ sends[t].pc = "failed"
                        /\ sends[t].err = "size"
                        /\ Len(sends[t].buffer) > MaxChunks
  /\ \E u \in SendIds : sends[u].pc = "done" /\ sends[u].sent # << >>
  /\ _callCount = 1
  /\ _unsentMessages = 0
  /\ _unsentChunks = 0

\* C12: a send hands its datagrams to the socket one at a time: a datagram
\* is handed over only when the send has none outstanding, every datagram
\* after the first only when the socket has reported the one before it as
\* sent, and the i-th datagram of a chunked message carries sequence
\* number i - 1.
C12_ChunksOneAtATime ==
  [][ \A t \in SendIds :
        sends'[t].sent # sends[t].sent
          => /\ Len(sends'[t].sent) = Len(sends[t].sent) + 1
             /\ SubSeq(sends'[t].sent, 1, Len(sends[t].sent)) = sends[t].sent
             /\ sends[t].pc # "inflight"
             /\ Len(sends[t].sent) > 0
                  => sends[t].pc = "settled" /\ sends[t].err = "none"
             /\ sends'[t].chunked
                  => sends'[t].sent[Len(sends'[t].sent)].msg[11]
                       = Len(sends[t].sent)
    ]_vars

\* C12 witness: the second chunk of a message is with the socket, after the
\* first one was reported as sent.
C12_Witness ==
  \E t \in SendIds :
    /\ sends[t].chunked
    /\ sends[t].pc = "inflight"
    /\ Len(sends[t].sent) = 2
    /\ sends[t].sent[1].msg[11] = 0
    /\ sends[t].sent[2].msg[11] = 1

\* The send calls that went through the loop of _sendChunkedStream with a
\* chunk count that is not positive: they took a server and sent nothing.
EmptyStreams ==
  {t \in SendIds : /\ sends[t].chunked
                   /\ sends[t].id # << >>
                   /\ sends[t].chunkCount <= 0}

\* C13: every datagram of one message goes to the same host and port, the
\* server the message took, and _callCount has moved once for each message
\* that handed a datagram to a socket (and once for each message that went
\* through the chunk loop without a chunk), never once per chunk.
C13_OneServerPerMessage ==
  /\ \A t \in SendIds :
       \A i \in 1 .. Len(sends[t].sent) :
         /\ sends[t].sent[i].server = sends[t].server
         /\ sends[t].sent[i].server = sends[t].sent[1].server
  /\ _callCount = Cardinality(Transmitted) + Cardinality(EmptyStreams)

\* C13 witness: both chunks of a message went to the first server while
\* another message, which took the second server, is with the socket.
C13_Witness ==
  \E t, u \in SendIds :
    /\ sends[t].chunked
    /\ Len(sends[t].sent) = 2
    /\ sends[t].pc = "inflight"
    /\ sends[t].server = Servers[1]
    /\ sends[u].pc = "inflight"
    /\ sends[u].sent # << >>
    /\ sends[u].server = Servers[2]
    /\ _callCount = 2

\* C14: the message that is the k-th to start its transmission (k counted
\* from 0) sends its first datagram to servers[k mod len(servers)].
C14_RoundRobin ==
  [][ \A t \in SendIds :
        (sends[t].sent = << >> /\ sends'[t].sent # << >>)
          => sends'[t].sent[1].server =
               Servers[(Cardinality(Transmitted) % Len(Servers)) + 1]
    ]_vars

\* What C14 says, for the buffer sizes that leave room for data in a chunk.
RoundRobinWhenRoom ==
  [][ _bufferSize > HeaderSize
        => \A t \in SendIds :
             (sends[t].sent = << >> /\ sends'[t].sent # << >>)
               => sends'[t].sent[1].server =
                    Servers[(Cardinality(Transmitted) % Len(Servers)) + 1]
    ]_vars

\* C15: once a datagram of a send has failed in the transport, the send
\* hands no further datagram to a socket, keeps that error, and its next
\* step ends it as failed; the failed datagram is the last one handed over.
C15_TransportErrorAborts ==
  [][ \A t \in SendIds :
        /\ sends[t].err = "transport"
             => /\ sends'[t].sent = sends[t].sent
                /\ sends'[t].err = "transport"
                /\ sends'[t] # sends[t] => sends'[t].pc = "failed"
        /\ (sends'[t].err = "transport" /\ sends'[t].chunked)
             => Len(sends'[t].sent) = sends'[t].seq + 1
    ]_vars

\* C15 witness: a message of two chunks has failed with the transport error
\* of its first chunk, and its second chunk was never handed over.
C15_Witness ==
  \E t \in SendIds :
    /\ sends[t].chunked
    /\ sends[t].chunkCount = 2
    /\ sends[t].pc = "failed"
    /\ sends[t].err = "transport"
    /\ Len(sends[t].sent) = 1

\* ------------------------------------------------- claims: the log methods

\* How many times callback cb was called with error e for send call r.
Calls(r, cb, e) ==
  Cardinality({i \in 1 .. Len(r.notified) : r.notified[i] = [cb |-> cb, e |-> e]})

Registered(cb) == \E i \in 1 .. Len(listeners) : listeners[i] = cb

C17_StrictModePropagates ==
  \A t \in SendIds :
    /\ (/\ sends[t].method \in {"send", "_log"}
        /\ sends[t].disablePromiseRejection \in {"omitted", "false"}
        /\ sends[t].pc = "failed")
         => /\ sends[t].result = "rejected"
            /\ sends[t].reason = sends[t].err
            /\ sends[t].err \in {"size", "transport"}
            /\ sends[t].notified = << >>
    /\ (/\ sends[t].method = "_log"
        /\ sends[t].disablePromiseRejection = "true"
        /\ sends[t].pc = "failed")
         => sends[t].result = "false"
    /\ sends[t].result = "false"
         => /\ sends[t].method # "send"
            /\ sends[t].disablePromiseRejection = "true"

\* C17 witness: with a callback registered, a _log call without
\* disablePromiseRejection was rejected with a transport error and a send()
\* with the size error, and the callback was not called.
C17_Witness ==
  \E t, u \in SendIds :
    /\ Registered("cb")
    /\ sends[t].method = "_log"
    /\ sends[t].disablePromiseRejection = "omitted"
    /\ sends[t].result = "rejected" /\ sends[t].reason = "transport"
    /\ sends[t].notified = << >>
    /\ sends[u].method = "send"
    /\ sends[u].result = "rejected" /\ sends[u].reason = "size"
    /\ sends[u].notified = << >>

\* C18: when a call of a named method has failed in the transport and
\* resolved to false, the callback given as config.onError has been called
\* with the error.
C18_ConfigOnErrorCalled ==
  \A t \in SendIds :
    (/\ sends[t].method \in NamedMethods
     /\ sends[t].result = "false"
     /\ sends[t].err = "transport")
      => Calls(sends[t], ConfigOnError, "transport") >= 1

RECURSIVE Sum(_)
Sum(counts) ==
  IF counts = << >> THEN 0
  ELSE counts[1] + Sum(SubSeq(counts, 2, Len(counts)))

\* The socket reported every datagram of send call r as sent in full.
AcceptedInFull(r) ==
  /\ Len(r.reported) = Len(r.sent)
  /\ \A i \in 1 .. Len(r.sent) : r.reported[i] = Len(r.sent[i].msg)

\* C19: a call that succeeds resolves to the sum of the byte counts the
\* socket reported for its datagrams; when every datagram was sent in full
\* that is the length of the buffer for a single datagram, and the length
\* of the buffer plus 12 for each chunk for a chunked message.
C19_ResolvesToBytes ==
  \A t \in SendIds :
    sends[t].pc = "done"
      => /\ sends[t].result = "resolved"
         /\ sends[t].sendedBytes = Sum(sends[t].reported)
         /\ Len(sends[t].reported) = Len(sends[t].sent)
         /\ AcceptedInFull(sends[t])
              => sends[t].sendedBytes =
                   IF sends[t].chunked
                   THEN Len(sends[t].buffer) + HeaderSize * Len(sends[t].sent)
                   ELSE Len(sends[t].buffer)

\* What C19 says, for the buffer sizes that leave room for data in a chunk.
ResolvesToBytesWhenRoom ==
  _bufferSize > HeaderSize => C19_ResolvesToBytes

\* The level the documentation gives for each named method.
DocumentedLevel(method) ==
  CASE method = "emergency" -> 0
    [] method = "alert" -> 1
    [] method = "critical" -> 2
    [] method = "error" -> 3
    [] method \in {"warning", "warn"} -> 4
    [] method = "notice" -> 5
    [] method \in {"info", "log"} -> 6
    [] method = "debug" -> 7

\* C20: when meta gives no level, the record a named method sends carries
\* the level documented for the method, and the record of a _log call
\* without a level carries level 6.
C20_MethodLevel ==
  \A t \in SendIds :
    (sends[t].pc # "idle" /\ sends[t].meta.level = NoLevel)
      => /\ sends[t].method \in NamedMethods
              => sends[t].payload.level = DocumentedLevel(sends[t].method)
         /\ (sends[t].method = "_log" /\ sends[t].level = NoLevel)
              => sends[t].payload.level = 6

\* What C20 says, for every method but emergency.
MethodLevelButEmergency ==
  \A t \in SendIds :
    (sends[t].pc # "idle" /\ sends[t].meta.level = NoLevel
       /\ sends[t].method # "emergency")
      => /\ sends[t].method \in NamedMethods
              => sends[t].payload.level = DocumentedLevel(sends[t].method)
         /\ (sends[t].method = "_log" /\ sends[t].level = NoLevel)
              => sends[t].payload.level = 6

\* ------------------------------------- claims: compression, socket, close

\* C23: a send compresses its record exactly when the mode is "always", or
\* "optimal" with a record longer than _bufferSize; a record that is not
\* compressed and no longer than _bufferSize is handed to the socket as
\* exactly one datagram, byte for byte the serialized record.
C23_CompressionByModeAndSize ==
  [][ \A t \in SendIds :
        /\ (sends[t].pc = "idle" /\ sends'[t].pc = "deflate")
             => \/ deflate = "always"
                \/ deflate = "optimal" /\ Len(sends'[t].data) > _bufferSize
        /\ (sends[t].pc = "idle" /\ sends'[t].pc \notin {"idle", "deflate"})
             => /\ \/ deflate = "never"
                   \/ deflate = "optimal" /\ Len(sends'[t].buffer) <= _bufferSize
                /\ ~sends'[t].compressed
                /\ sends'[t].buffer = Serialize(Len(sends'[t].buffer))
                /\ Len(sends'[t].buffer) <= _bufferSize
                     => /\ Len(sends'[t].sent) = 1
                        /\ sends'[t].sent[1].msg = sends'[t].buffer
        /\ (~sends'[t].compressed /\ Len(sends'[t].buffer) <= _bufferSize)
             => Len(sends'[t].sent) <= 1
    ]_vars

\* C23 witness: under "optimal" one record went out uncompressed as one
\* datagram and a longer one was compressed.
C23_Witness ==
  \E t, u \in SendIds :
    /\ deflate = "optimal"
    /\ sends[t].pc = "done" /\ ~sends[t].compressed
    /\ Len(sends[t].sent) = 1
    /\ sends[t].sent[1].msg = Serialize(_bufferSize)
    /\ sends[u].compressed /\ sends[u].sent # << >>

\* C25: a socket is created only when the client holds none, in the step
\* that hands a datagram over; the socket held changes only by such a
\* creation or by a release; every datagram is handed to the socket held.
C25_OneSocketLazily ==
  [][ /\ socketCount' # socketCount
           => /\ client = NoSocket
              /\ socketCount' = socketCount + 1
              /\ client' = socketCount'
              /\ \E t \in SendIds : sends'[t].sent # sends[t].sent
      /\ client' # client
           => \/ client = NoSocket /\ socketCount' = socketCount + 1
              \/ client' = NoSocket
      /\ \A t \in SendIds :
           sends'[t].sent # sends[t].sent
             => /\ sends'[t].sent[Len(sends'[t].sent)].socket = client'
                /\ client # NoSocket => client' = client
      /\ (socketCount' = 0) => client' = NoSocket
    ]_vars

\* C25 witness: two messages are in flight at once, both on the one socket
\* that was created.
C25_Witness ==
  /\ socketCount = 1
  /\ client = 1
  /\ \A t \in SendIds :
       /\ sends[t].pc = "inflight"
       /\ sends[t].sent[Len(sends[t].sent)].socket = 1

\* C26: in the step that resolves a close() promise the client ends up
\* holding no socket.
C26_ResolveReleasesSocket ==
  [][ (\E c \in CloseIds : closePromise[c] = "pending"
                            /\ closePromise'[c] = "resolved")
        => client' = NoSocket
    ]_vars

\* C26 witness: a message went out on a socket, and the close() called
\* after it has resolved with the socket released.
C26_Witness ==
  /\ \E c \in CloseIds : closePromise[c] = "resolved" /\ closes[c].phase = "open"
  /\ \E t \in SendIds : /\ sends[t].pc = "done"
                        /\ sends[t].phase = "open"
                        /\ sends[t].sent # << >>
  /\ socketCount = 1
  /\ client = NoSocket

\* C27: when the first check of an accepted close() runs with both counters
\* at 0, the close() promise is resolved after it, and a promise this check
\* resolves leaves no socket held, whether or not a socket was ever created.
C27_IdleCloseCompletes ==
  [][ \A c \in CloseIds :
        (/\ closes[c].pc = "tickCheck"
         /\ closes'[c].pc = "returned"
         /\ _unsentMessages = 0
         /\ _unsentChunks = 0)
          => /\ closePromise'[c] = "resolved"
             /\ closePromise[c] = "pending" => client' = NoSocket
    ]_vars

\* C27 witness: a close() on a client that never sent has resolved; no
\* socket was ever created.
C27_Witness ==
  /\ socketCount = 0
  /\ \A t \in SendIds : sends[t].pc = "idle"
  /\ \E c \in CloseIds : closePromise[c] = "resolved" /\ closes[c].pc = "returned"

\* C30: 0 <= _unsentChunks <= _unsentMessages.
C30_ChunksWithinMessages ==
  /\ 0 <= _unsentChunks
  /\ _unsentChunks <= _unsentMessages

\* What C30 says, as long as _unsentChunks counts the datagrams with the
\* socket.
ChunksWithinMessagesWhenCounted ==
  _unsentChunks = Cardinality(Outstanding) => C30_ChunksWithinMessages

\* ------------------------------------------------------ claims: construction

\* The constructor has run, one way or the other.
Constructed == construction.pc # "fields"

\* C24: a config whose deflate is a value other than "optimal", "always"
\* and "never" makes the constructor throw an error whose message starts
\* with 'deflate must be one of'; no instance results and no socket is
\* created.
C24_OtherDeflateThrows ==
  (/\ Constructed
   /\ "deflate" \in config.given
   /\ config.deflate \notin {"optimal", "always", "never"})
    => /\ construction.pc = "thrown"
       /\ Len(construction.message) >= 22
       /\ SubSeq(construction.message, 1, 22) = "deflate must be one of"
       /\ socketCount = 0
       /\ client = NoSocket
       /\ \A t \in SendIds : sends[t].pc = "idle"

\* What C24 says, for the values other than the empty string.
NonEmptyOtherDeflateThrows ==
  config.deflate # "" => C24_OtherDeflateThrows

\* C28: after the constructor returned, _bufferSize is the bufferSize of the
\* config when the config gives one greater than 0, and 1400 otherwise; the
\* constructor throws for no bufferSize: it throws only for the mode.
C28_EffectiveBufferSize ==
  /\ construction.pc = "returned"
       => _bufferSize = IF "bufferSize" \in config.given /\ config.bufferSize > 0
                        THEN config.bufferSize
                        ELSE 1400
  /\ construction.pc = "thrown"
       => /\ "deflate" \in config.given
          /\ config.deflate \notin {"", "optimal", "always", "never"}
  /\ \A t \in SendIds :
       (sends[t].pc = "done" /\ ~sends[t].compressed)
         => (Len(sends[t].sent) = 1 <=> Len(sends[t].buffer) <= _bufferSize)

\* C28 witness: an instance made with a bufferSize that is not positive
\* sent a record of 1400 bytes as one datagram and one of 1401 bytes in
\* chunks.
C28_Witness ==
  /\ "bufferSize" \in config.given
  /\ config.bufferSize <= 0
  /\ construction.pc = "returned"
  /\ \E t, u \in SendIds :
       /\ sends[t].pc = "done" /\ sends[u].pc = "done"
       /\ sends[t].sent = << [msg |-> Serialize(1400),
                              server |-> sends[t].server,
                              socket |-> 1] >>
       /\ ~sends[u].compressed
       /\ Len(sends[u].buffer) = 1401
       /\ Len(sends[u].sent) = 2

\* ---------------------------------------------- claims: the keys of meta

\* The calls whose record _log built from a meta object.
BuiltFromMeta(t) ==
  sends[t].pc # "idle" /\ sends[t].method # "send" /\ sends[t].meta.given

\* C21: a level 0..7 given as meta.level is the level of the record,
\* whatever the method called.
C21_MetaLevelOverrides ==
  \A t \in SendIds :
    (BuiltFromMeta(t) /\ sends[t].meta.level \in 0 .. 7)
      => sends[t].payload.level = sends[t].meta.level

\* What C21 says, for the levels 1..7.
MetaLevelOverridesButEmergency ==
  \A t \in SendIds :
    (BuiltFromMeta(t) /\ sends[t].meta.level \in 1 .. 7)
      => sends[t].payload.level = sends[t].meta.level

\* C22: when meta has the key id, whatever its value, the record has no
\* _id and has that value under __id.
C22_IdRenamed ==
  \A t \in SendIds :
    (BuiltFromMeta(t) /\ sends[t].meta.fields["id"] # Undefined)
      => /\ sends[t].payload.fields["_id"] = Undefined
         /\ sends[t].payload.fields["__id"] = sends[t].meta.fields["id"]

\* What C22 says, for the values of id that are not the empty string.
NonEmptyIdRenamed ==
  \A t \in SendIds :
    (BuiltFromMeta(t) /\ sends[t].meta.fields["id"] \notin {Undefined, ""})
      => /\ sends[t].payload.fields["_id"] = Undefined
         /\ sends[t].payload.fields["__id"] = sends[t].meta.fields["id"]

\* C29, as the spec states it: every key of meta other than facility,
\* full_message, level, hostname and timestamp is in the record under its
\* name with one underscore before it, with its value; none of those five
\* is in the record with an underscore before it.
C29_AdditionalFieldsPrefixed ==
  \A t \in SendIds :
    BuiltFromMeta(t)
      => /\ \A k \in MetaKeys \ {"facility", "full_message", "hostname",
                                   "timestamp"} :
              sends[t].meta.fields[k] # Undefined
                => sends[t].payload.fields["_" \o k] = sends[t].meta.fields[k]
         /\ \A k \in {"facility", "full_message", "hostname", "timestamp"} :
              sends[t].payload.fields["_" \o k] = Undefined

\* C29, amended: the same for every key other than those five and id,
\* except that the value under __id is that of id when meta gives an id
\* that is not empty; a key that is not a key of the record itself is in
\* the record under no other name.
C29_AdditionalFieldsButId ==
  \A t \in SendIds :
    BuiltFromMeta(t)
      => /\ \A k \in MetaKeys \ {"facility", "full_message", "hostname",
                                   "timestamp", "id"} :
              sends[t].meta.fields[k] # Undefined
                => sends[t].payload.fields["_" \o k] =
                     IF k = "_id" /\ sends[t].meta.fields["id"] \notin {Undefined, ""}
                     THEN sends[t].meta.fields["id"]
                     ELSE sends[t].meta.fields[k]
         /\ sends[t].payload.fields["user"] = Undefined
         /\ sends[t].payload.fields["id"] = Undefined
         /\ \A k \in {"facility", "full_message", "hostname", "timestamp"} :
              sends[t].payload.fields["_" \o k] = Undefined

\* C29 witness: a record went out for a meta that gives the reserved keys
\* and the keys user and _id; it has them as _user and __id.
C29_Witness ==
  \E t \in SendIds :
    /\ sends[t].pc = "done"
    /\ sends[t].method = "info"
    /\ sends[t].meta.fields["facility"] = "v"
    /\ sends[t].meta.fields["user"] = "v"
    /\ sends[t].meta.fields["_id"] = "v"
    /\ sends[t].meta.fields["id"] = Undefined
    /\ sends[t].payload.fields["_user"] = "v"
    /\ sends[t].payload.fields["__id"] = "v"
    /\ sends[t].payload.fields["facility"] = "v"

\* ------------------------------------------------ claims: datagram sizes

\* C31: every datagram handed to a socket is at most _bufferSize bytes
\* long; a message that is not chunked is one datagram; a chunk carries the
\* 12-byte header and from 1 to _bufferSize - 12 payload bytes, and every
\* chunk but the last of its message is exactly _bufferSize bytes long.
C31_DatagramWithinBufferSize ==
  \A t \in SendIds :
    \A i \in 1 .. Len(sends[t].sent) :
      LET msg == sends[t].sent[i].msg
      IN /\ Len(msg) <= _bufferSize
         /\ ~sends[t].chunked => Len(sends[t].sent) = 1
         /\ sends[t].chunked
              => /\ Len(msg) - 12 >= 1
                 /\ Len(msg) - 12 <= _bufferSize - 12
                 /\ i < sends[t].chunkCount => Len(msg) = _bufferSize

\* C31 witness: a chunked message has gone out in two chunks, the first of
\* _bufferSize bytes and the last shorter, and another message as one
\* datagram of _bufferSize bytes.
C31_Witness ==
  \E t, u \in SendIds :
    /\ sends[t].pc = "done" /\ sends[t].chunked
    /\ Len(sends[t].sent) = 2
    /\ Len(sends[t].sent[1].msg) = _bufferSize
    /\ Len(sends[t].sent[2].msg) < _bufferSize
    /\ sends[u].pc = "done" /\ ~sends[u].chunked
    /\ Len(sends[u].sent[1].msg) = _bufferSize

\* C32: a send of a buffer longer than _bufferSize that has resolved has
\* handed at least one datagram to a socket.
C32_NoEmptySuccess ==
  \A t \in SendIds :
    (sends[t].pc = "done" /\ Len(sends[t].buffer) > _bufferSize)
      => sends[t].sent # << >>

\* What C32 says, for the buffer sizes from 12 on.
NoEmptySuccessFromHeaderSize ==
  _bufferSize >= HeaderSize => C32_NoEmptySuccess

\* C33: a step hands at most one datagram to the socket, for one message,
\* after the datagrams that message handed over before, which stay as they
\* are; the datagram of a chunked message carries the magic bytes, the id
\* and the chunk count of that message, the number of datagrams the message
\* handed over before as sequence number, and the slice of the message's
\* buffer at that position; id, count and buffer of a message stay the same
\* from its first datagram on.
C33_ChunksOfOneMessage ==
  [][ /\ \A t, u \in SendIds :
           (sends'[t].sent # sends[t].sent /\ sends'[u].sent # sends[u].sent)
             => t = u
      /\ \A t \in SendIds :
           sends'[t].sent # sends[t].sent
             => LET seq == Len(sends[t].sent)
                    msg == sends'[t].sent[seq + 1].msg
                    dataSize == _bufferSize - 12
                    r == sends'[t]
                IN /\ Len(r.sent) = seq + 1
                   /\ SubSeq(r.sent, 1, seq) = sends[t].sent
                   /\ r.chunked
                        => /\ msg[1] = 30 /\ msg[2] = 15
                           /\ SubSeq(msg, 3, 10) = r.id
                           /\ msg[11] = seq
                           /\ msg[12] = r.chunkCount
                           /\ seq < r.chunkCount
                           /\ SubSeq(msg, 13, Len(msg)) =
                                SubSeq(r.buffer, seq * dataSize + 1,
                                       Min((seq + 1) * dataSize, Len(r.buffer)))
      /\ \A t \in SendIds :
           (sends[t].chunked /\ sends[t].sent # << >>)
             => /\ sends'[t].id = sends[t].id
                /\ sends'[t].chunkCount = sends[t].chunkCount
                /\ sends'[t].buffer = sends[t].buffer
                /\ sends'[t].chunked
    ]_vars

\* C33 witness: two chunked messages with different ids are with the one
\* socket at once, the first with its second chunk and the second with its
\* first.
C33_Witness ==
  /\ \A t \in SendIds : sends[t].pc = "inflight" /\ sends[t].chunked
  /\ sends[1].id # sends[2].id
  /\ Len(sends[1].sent) = 2
  /\ Len(sends[2].sent) = 1
  /\ sends[1].sent[2].socket = sends[2].sent[1].socket

====
